---------------------------- MODULE Spec2Model ----------------------------
(***************************************************************************)
(* Model of the goal-to-plan decomposition engine of Smart-Task-Planner    *)
(* (src/task_logic.py): parse_goal_duration, mock_llm_reasoning,           *)
(* call_openai, build_prompt and generate_plan.                            *)
(*                                                                         *)
(* A text is a sequence of one-character strings.  A calendar day is its   *)
(* proleptic Gregorian ordinal (datetime.date.toordinal); the time of day  *)
(* of a datetime plays no part in any date the engine produces, because    *)
(* only whole days are added and only .date() is read.                     *)
(***************************************************************************)
EXTENDS Integers, Sequences, FiniteSets, TLC

VARIABLES
    OPENAI_KEY,   \* TRUE iff the module-level credential is configured
    pc,           \* position of the current call
    goal_text,    \* the goal the current call works on
    use_openai,   \* the flag generate_plan was called with
    now,          \* day ordinal of datetime.utcnow() during the call
    request,      \* prompt posted to the external service, <<>> when none
    posts,        \* number of HTTP posts made by the current call
    outcome,      \* what the external call produced
    printed,      \* TRUE iff the call printed "OpenAI call failed: ..."
    duration,     \* what parse_goal_duration gave the call's last
                  \* mock_llm_reasoning: its local (days, deadline)
    result        \* what the current call returned or raised

vars == <<OPENAI_KEY, pc, goal_text, use_openai, now, request, posts, outcome,
          printed, duration, result>>

-----------------------------------------------------------------------------
(* Bounds of the model *)

\* number of fragments a goal handed to parse_goal_duration or
\* mock_llm_reasoning is built from
MaxFrags == 3

\* number of fragments a goal handed to generate_plan is built from
MaxPlanFrags == 2

-----------------------------------------------------------------------------
(* Texts *)

Max(a, b) == IF a >= b THEN a ELSE b

Min(a, b) == IF a <= b THEN a ELSE b

UpperLetters ==
    <<"A","B","C","D","E","F","G","H","I","J","K","L","M",
      "N","O","P","Q","R","S","T","U","V","W","X","Y","Z">>

LowerLetters ==
    <<"a","b","c","d","e","f","g","h","i","j","k","l","m",
      "n","o","p","q","r","s","t","u","v","w","x","y","z">>

Digits == <<"0","1","2","3","4","5","6","7","8","9">>

\* the upper-case letters and their lower-case forms
LowerOf == [c \in {UpperLetters[i] : i \in 1..26} |->
               LowerLetters[CHOOSE i \in 1..26 : UpperLetters[i] = c]]

\* str.lower(), one character
LowerChar(c) == IF c \in DOMAIN LowerOf THEN LowerOf[c] ELSE c

\* str.lower()
Lower(s) == [i \in 1..Len(s) |-> LowerChar(s[i])]

\* the whitespace \s of the re module matches and str.strip() removes
IsSpace(c) == c \in {" ", "\t", "\n", "\r", "\f"}

\* the value of each decimal digit
DigitOf == [c \in {Digits[i] : i \in 1..10} |->
               (CHOOSE i \in 1..10 : Digits[i] = c) - 1]

\* \d of the re module
IsDigit(c) == c \in DOMAIN DigitOf

DigitVal(c) == DigitOf[c]

\* str.strip(): drop leading and trailing whitespace
Strip(s) ==
    LET keep == {i \in 1..Len(s) : ~IsSpace(s[i])}
    IN  IF keep = {} THEN <<>>
        ELSE SubSeq(s, CHOOSE i \in keep : \A j \in keep : i <= j,
                       CHOOSE i \in keep : \A j \in keep : i >= j)

\* needle occurs in hay at position i (1-based)
OccursAt(needle, hay, i) ==
    /\ i >= 1
    /\ i + Len(needle) - 1 <= Len(hay)
    /\ \A k \in 1..Len(needle) : hay[i + k - 1] = needle[k]

\* the `in` operator on strings
Contains(needle, hay) == \E i \in 1..(Len(hay) + 1) : OccursAt(needle, hay, i)


-----------------------------------------------------------------------------
(* Calendar *)

\* date.max.toordinal(), 9999-12-31: datetime + timedelta raises
\* OverflowError past it
MaxOrdinal == 3652059

\* day ordinals datetime.utcnow() is drawn from: 2027-12-30 (the plan
\* crosses a year end) and 2028-02-27 (it crosses a leap day)
NowSet == {740345, 740404}

IsLeap(y) == y % 4 = 0 /\ (y % 100 # 0 \/ y % 400 = 0)

\* days of a common year before the first of each month
DaysBeforeMonthTable == <<0, 31, 59, 90, 120, 151, 181, 212, 243, 273, 304, 334>>

DaysBeforeMonth(m, leap) ==
    DaysBeforeMonthTable[m] + (IF m > 2 /\ leap THEN 1 ELSE 0)

\* the month holding day r (counted from 0) of a year: the last one that
\* starts on or before it
MonthOf(r, leap) == Cardinality({k \in 1..12 : DaysBeforeMonth(k, leap) <= r})

\* <<year, month, day>> of day r (counted from 0) of year y
YearDay(y, r, leap, m) == <<y, m, r - DaysBeforeMonth(m, leap) + 1>>

\* <<year, month, day>> from the counts of whole 400-, 100-, 4- and 1-year
\* cycles before the day and the days r left over
FromCycles(n400, n100, n4, n1, r) ==
    IF n1 = 4 \/ n100 = 4
    THEN <<n400 * 400 + n100 * 100 + n4 * 4 + n1, 12, 31>>
    ELSE YearDay(n400 * 400 + n100 * 100 + n4 * 4 + n1 + 1, r,
                 IsLeap(n400 * 400 + n100 * 100 + n4 * 4 + n1 + 1),
                 MonthOf(r, IsLeap(n400 * 400 + n100 * 100 + n4 * 4 + n1 + 1)))

\* datetime.date.fromordinal(ord) as <<year, month, day>>
Ord2Ymd(ord) ==
    FromCycles((ord - 1) \div 146097,
               ((ord - 1) % 146097) \div 36524,
               (((ord - 1) % 146097) % 36524) \div 1461,
               ((((ord - 1) % 146097) % 36524) % 1461) \div 365,
               ((((ord - 1) % 146097) % 36524) % 1461) % 365)

\* (datetime + timedelta(days)).date().isoformat(): the text "YYYY-MM-DD",
\* kept as its three zero-padded fields <<YYYY, MM, DD>>
IsoDate(ord) == Ord2Ymd(ord)

\* order of two isoformat() texts: field by field, as the fixed-width
\* zero-padded text compares
IsoLeq(a, b) ==
    \/ a[1] < b[1]
    \/ a[1] = b[1] /\ a[2] < b[2]
    \/ a[1] = b[1] /\ a[2] = b[2] /\ a[3] <= b[3]

-----------------------------------------------------------------------------
(* parse_goal_duration *)

w_day    == <<"d","a","y">>
w_days   == <<"d","a","y","s">>
w_week   == <<"w","e","e","k">>
w_weeks  == <<"w","e","e","k","s">>
w_month  == <<"m","o","n","t","h">>
w_months == <<"m","o","n","t","h","s">>
w_launch  == <<"l","a","u","n","c","h">>
w_ship    == <<"s","h","i","p">>
w_release == <<"r","e","l","e","a","s","e">>
w_product   == <<"p","r","o","d","u","c","t">>
w_marketing == <<"m","a","r","k","e","t","i","n","g">>

\* the alternation (day|days|week|weeks|month|months), in its order
Units == <<w_day, w_days, w_week, w_weeks, w_month, w_months>>

\* ends e of a run of digits i..e (\d+ from i)
DigitEnds(s, i) ==
    IF i > Len(s) \/ ~IsDigit(s[i]) THEN {}
    ELSE {e \in i..Len(s) : \A j \in i..e : IsDigit(s[j])}

\* ends w of a possibly empty run of whitespace e+1..w (\s* after e)
SpaceEnds(s, e) == {w \in e..Len(s) : \A j \in (e + 1)..w : IsSpace(s[j])}

\* the alternatives that fit at position p
UnitsAt(s, p) == {k \in 1..Len(Units) : OccursAt(Units[k], s, p)}

\* the ways (\d+)\s*(unit) can match s starting at i: <<e, <<w, k>>>> with
\* the digits at i..e, the whitespace at e+1..w and Units[k] at w+1
MatchesAt(s, i) ==
    UNION {UNION {{<<e, <<w, k>>>> : k \in UnitsAt(s, w + 1)} :
                  w \in SpaceEnds(s, e)} :
           e \in DigitEnds(s, i)}

\* the largest and the smallest member of a non-empty set of integers
MaxOf(S) == CHOOSE x \in S : \A y \in S : y <= x

MinOf(S) == CHOOSE x \in S : \A y \in S : x <= y

\* among the ways to match at i, the one the backtracking matcher reports:
\* greedy \d+, then greedy \s*, then the first alternative that fits
Preferred(all) ==
    LET e == MaxOf({m[1] : m \in all})
        w == MaxOf({m[2][1] : m \in {n \in all : n[1] = e}})
    IN  <<e, w, MinOf({m[2][2] : m \in {n \in all : n[1] = e /\ n[2][1] = w}})>>

\* the match object: where it starts, group(1) and group(2)
MatchObject(s, i, m) ==
    [found |-> TRUE, at |-> i, group1 |-> SubSeq(s, i, m[1]), group2 |-> Units[m[3]]]

MatchAt(s, i) == MatchObject(s, i, Preferred(MatchesAt(s, i)))

\* the match at the leftmost of the positions that have one
FirstMatch(s, starts) ==
    IF starts = {} THEN [found |-> FALSE] ELSE MatchAt(s, MinOf(starts))

\* re.search(r'(\d+)\s*(day|days|week|weeks|month|months)', s)
ReSearch(s) == FirstMatch(s, {i \in 1..Len(s) : MatchesAt(s, i) # {}})

\* Python integers are unbounded.  Every value above MaxOrdinal makes
\* now + timedelta(days=days) raise OverflowError (timedelta's own limit of
\* 999999999 days raises the same), so such values are kept as IntCeil.
IntCeil == MaxOrdinal + 1

\* int() of a run of decimal digits
RECURSIVE IntOf(_)
IntOf(d) ==
    IF d = <<>> THEN 0
    ELSE Min(IntCeil, IntOf(SubSeq(d, 1, Len(d) - 1)) * 10 + DigitVal(d[Len(d)]))

FallbackShort == 14

FallbackLong == 30

Return(v) == [kind |-> "return", value |-> v]

Raise(e) == [kind |-> "raise", exc |-> e]

\* now + timedelta(days=days)
AddDays(n, days) ==
    IF n + days > MaxOrdinal THEN Raise("OverflowError") ELSE Return(n + days)

\* days the matched pattern stands for
UnitDays(num, unit) ==
    IF Contains(w_week, unit) THEN num * 7
    ELSE IF Contains(w_month, unit) THEN num * 30
    ELSE num

\* fallback when no pattern matched
FallbackDays(goal) ==
    IF Contains(w_launch, goal) \/ Contains(w_ship, goal) \/ Contains(w_release, goal)
    THEN FallbackShort ELSE FallbackLong

\* days of a match, or of the fallback when there is none
DaysOf(goal, m) ==
    IF m.found THEN UnitDays(IntOf(m.group1), m.group2) ELSE FallbackDays(goal)

\* return days, now + timedelta(days=days)
WithDeadline(days, deadline) ==
    IF deadline.kind = "raise" THEN deadline
    ELSE Return([days |-> days, deadline |-> deadline.value])

DurationOf(n, days) == WithDeadline(days, AddDays(n, days))

ParseLowered(goal, n) == DurationOf(n, DaysOf(goal, ReSearch(goal)))

parse_goal_duration(goal, n) == ParseLowered(Lower(goal), n)

-----------------------------------------------------------------------------
(* mock_llm_reasoning *)

\* the phase catalogue: <<title, description>>, in dependency order
phases ==
    << <<"Define scope & success metrics",
         "Clarify goal, success metrics, target audience, and constraints.">>,
       <<"Design & plan",
         "Create designs, wireframes or implementation plans.">>,
       <<"Implementation",
         "Develop core functionality and integrate components.">>,
       <<"Testing & QA",
         "Test features, fix bugs, and verify performance.">>,
       <<"Deployment & Launch",
         "Deploy to production and run launch checklist.">>,
       <<"Post-launch monitoring",
         "Monitor usage, collect feedback, and iterate.">> >>

\* days from which the whole catalogue is used
FullPlanDays == 10

\* length of the prefix used below FullPlanDays
ShortPlanPhases == 4

\* Chosen with the threshold test written > instead of >=
Chosen_Strict(days) ==
    IF days > FullPlanDays THEN phases ELSE SubSeq(phases, 1, ShortPlanPhases)

\* chosen = phases if days >= 10 else phases[:4]
Chosen(days) ==
    IF days >= FullPlanDays THEN phases ELSE SubSeq(phases, 1, ShortPlanPhases)

\* PerTaskDays rounding the quotient up instead of down
PerTaskDays_Ceil(days, count) == Max(1, (days + count - 1) \div count)

\* per_task_days = max(1, days // len(chosen))
PerTaskDays(days, count) == Max(1, days \div count)

\* offsets, in days from start, of the i-th phase task's two dates
PhaseStartOffset(i, per) == (i - 1) * per

\* PhaseEndOffset without the - 1: a phase ends the day the next starts
PhaseEndOffset_NoGap(i, per) == i * per

PhaseEndOffset(i, per) == i * per - 1

\* PhaseDependsOn indexing chosen[i-1] instead of chosen[i-2]: the phase itself
PhaseDependsOn_Self(chosen, i) == IF i = 1 THEN "" ELSE chosen[i][1]

\* depends_on of the i-th phase task
PhaseDependsOn(chosen, i) == IF i = 1 THEN "" ELSE chosen[i - 1][1]

\* the task appended for the i-th chosen phase
PhaseTask(chosen, i, per, start) ==
    [title       |-> chosen[i][1],
     description |-> chosen[i][2],
     start_date  |-> IsoDate(start + PhaseStartOffset(i, per)),
     end_date    |-> IsoDate(start + PhaseEndOffset(i, per)),
     depends_on  |-> PhaseDependsOn(chosen, i)]

\* the keyword test of the augmentation
MarketingTrigger(goal) ==
    Contains(w_product, Lower(goal)) /\ Contains(w_marketing, Lower(goal))

MarketingTask(chosen, per, start) ==
    [title       |-> "Marketing prep",
     description |-> "Prepare assets, landing page, email sequences and socials.",
     start_date  |-> IsoDate(start + per),
     end_date    |-> IsoDate(start + per * 2),
     depends_on  |-> chosen[1][1]]

\* list.insert(index, x) for 0 <= index <= len(list), index counted from 0
ListInsert(list, index, x) ==
    SubSeq(list, 1, index) \o <<x>> \o SubSeq(list, index + 1, Len(list))

\* tasks.insert(len(tasks)-1, marketing task)
InsertMarketing(tasks, chosen, per, start) ==
    ListInsert(tasks, Len(tasks) - 1, MarketingTask(chosen, per, start))

\* largest day offset the call adds to start
LastOffset(extra, count, per) ==
    IF extra THEN Max(PhaseEndOffset(count, per), per * 2)
    ELSE PhaseEndOffset(count, per)

\* the tasks appended by the loop over the chosen phases
PhaseTasks(chosen, per, start) ==
    [i \in 1..Len(chosen) |-> PhaseTask(chosen, i, per, start)]

\* the tasks of the chosen phases, allocated from start on, and the
\* augmentation when extra; an OverflowError when a date lies past date.max
Allocate(extra, chosen, per, start) ==
    IF AddDays(start, LastOffset(extra, Len(chosen), per)).kind = "raise"
    THEN Raise("OverflowError")
    ELSE IF extra
    THEN Return(InsertMarketing(PhaseTasks(chosen, per, start), chosen, per, start))
    ELSE Return(PhaseTasks(chosen, per, start))

\* the plan for a duration of days
PlanFor(goal, chosen, days, start) ==
    Allocate(MarketingTrigger(goal), chosen, PerTaskDays(days, Len(chosen)), start)

\* the plan for the outcome d of parse_goal_duration
PlanOf(goal, d, start) ==
    IF d.kind = "raise" THEN d
    ELSE PlanFor(goal, Chosen(d.value.days), d.value.days, start)

mock_llm_reasoning(goal, n) == PlanOf(goal, parse_goal_duration(goal, n), n)

-----------------------------------------------------------------------------
(* json.loads, on the part of JSON the modelled replies are written in:    *)
(* null, true, false, integers, strings without escapes, arrays, objects.  *)
(* A Python value is a record tagged by its type.                          *)

PyNone == [t |-> "None"]

PyBool(b) == [t |-> "bool", b |-> b]

PyInt(n) == [t |-> "int", n |-> n]

PyStr(chars) == [t |-> "str", s |-> chars]

PyList(items) == [t |-> "list", items |-> items]

\* a dict is a function from its keys (texts) to its values
PyDict(items) == [t |-> "dict", items |-> items]

EmptyItems == [k \in {} |-> PyNone]

Quote == "\""

Parsed(v, next) == [ok |-> TRUE, v |-> v, n |-> next]

Fail == [ok |-> FALSE]

\* the whitespace JSON allows between tokens
IsJsonWs(c) == c \in {" ", "\t", "\n", "\r"}

RECURSIVE SkipWs(_, _)
SkipWs(s, i) == IF i <= Len(s) /\ IsJsonWs(s[i]) THEN SkipWs(s, i + 1) ELSE i

\* a string that opens at s[i] and closes at s[q]; escapes are not modelled
StringBody(s, i, q) ==
    IF \E j \in (i + 1)..(q - 1) : s[j] = "\\" THEN Fail
    ELSE Parsed(PyStr(SubSeq(s, i + 1, q - 1)), q + 1)

StringUpTo(s, i, closes) ==
    IF closes = {} THEN Fail ELSE StringBody(s, i, MinOf(closes))

\* a string starting at the quote s[i]
ParseString(s, i) == StringUpTo(s, i, {j \in (i + 1)..Len(s) : s[j] = Quote})

\* an integer whose digits are d0..MaxOf(ends); no leading zero
NumberTo(s, i, d0, ends) ==
    IF ends = {} THEN Fail
    ELSE IF s[d0] = "0" /\ MaxOf(ends) > d0 THEN Fail
    ELSE Parsed(PyInt((IF d0 > i THEN -1 ELSE 1) * IntOf(SubSeq(s, d0, MaxOf(ends)))),
                MaxOf(ends) + 1)

NumberFrom(s, i, d0) == NumberTo(s, i, d0, DigitEnds(s, d0))

\* an integer starting at s[i]
ParseNumber(s, i) == NumberFrom(s, i, IF s[i] = "-" THEN i + 1 ELSE i)

RECURSIVE ParseValue(_, _), ValueAt(_, _), ArrayFrom(_, _), ObjectFrom(_, _)
RECURSIVE ParseElems(_, _, _), AfterElem(_, _, _), ElemSep(_, _, _)
RECURSIVE ParseMembers(_, _, _), MemberKey(_, _, _), MemberColon(_, _, _)
RECURSIVE MemberValue(_, _, _, _), AfterMember(_, _, _, _), MemberSep(_, _, _)

\* a value starting at or after s[i0]
ParseValue(s, i0) == ValueAt(s, SkipWs(s, i0))

ValueAt(s, i) ==
    IF i > Len(s) THEN Fail
    ELSE IF s[i] = Quote THEN ParseString(s, i)
    ELSE IF s[i] = "[" THEN ArrayFrom(s, SkipWs(s, i + 1))
    ELSE IF s[i] = "{" THEN ObjectFrom(s, SkipWs(s, i + 1))
    ELSE IF s[i] = "-" \/ IsDigit(s[i]) THEN ParseNumber(s, i)
    ELSE IF OccursAt(<<"n","u","l","l">>, s, i) THEN Parsed(PyNone, i + 4)
    ELSE IF OccursAt(<<"t","r","u","e">>, s, i) THEN Parsed(PyBool(TRUE), i + 4)
    ELSE IF OccursAt(<<"f","a","l","s","e">>, s, i) THEN Parsed(PyBool(FALSE), i + 5)
    ELSE Fail

\* an array whose "[" has been read
ArrayFrom(s, j) ==
    IF j <= Len(s) /\ s[j] = "]" THEN Parsed(PyList(<<>>), j + 1)
    ELSE ParseElems(s, j, <<>>)

\* an object whose "{" has been read
ObjectFrom(s, j) ==
    IF j <= Len(s) /\ s[j] = "}" THEN Parsed(PyDict(EmptyItems), j + 1)
    ELSE ParseMembers(s, j, EmptyItems)

\* the elements of an array from s[i] on, acc holding those already read
ParseElems(s, i, acc) == AfterElem(s, acc, ParseValue(s, i))

AfterElem(s, acc, v) ==
    IF ~v.ok THEN Fail ELSE ElemSep(s, Append(acc, v.v), SkipWs(s, v.n))

ElemSep(s, acc, j) ==
    IF j > Len(s) THEN Fail
    ELSE IF s[j] = "," THEN ParseElems(s, j + 1, acc)
    ELSE IF s[j] = "]" THEN Parsed(PyList(acc), j + 1)
    ELSE Fail

\* the members of an object from s[i] on; a repeated key keeps its last value
ParseMembers(s, i, acc) == MemberKey(s, acc, SkipWs(s, i))

MemberKey(s, acc, ki) ==
    IF ki > Len(s) \/ s[ki] # Quote THEN Fail
    ELSE MemberColon(s, acc, ParseString(s, ki))

MemberColon(s, acc, k) ==
    IF ~k.ok THEN Fail ELSE MemberValue(s, acc, k.v.s, SkipWs(s, k.n))

MemberValue(s, acc, key, c) ==
    IF c > Len(s) \/ s[c] # ":" THEN Fail
    ELSE AfterMember(s, acc, key, ParseValue(s, c + 1))

AfterMember(s, acc, key, v) ==
    IF ~v.ok THEN Fail ELSE MemberSep(s, (key :> v.v) @@ acc, SkipWs(s, v.n))

MemberSep(s, acc, j) ==
    IF j > Len(s) THEN Fail
    ELSE IF s[j] = "," THEN ParseMembers(s, j + 1, acc)
    ELSE IF s[j] = "}" THEN Parsed(PyDict(acc), j + 1)
    ELSE Fail

\* nothing but whitespace may follow the value
WholeText(text, v) ==
    IF ~v.ok THEN Fail
    ELSE IF SkipWs(text, v.n) <= Len(text) THEN Fail
    ELSE v

\* json.loads(text); Fail stands for the JSONDecodeError it raises
json_loads(text) == WholeText(text, ParseValue(text, 1))

-----------------------------------------------------------------------------
(* Inputs *)

\* the pieces goals are put together from
Fragments ==
    { <<"0">>, <<"1">>, <<"4","0","0","0","0","0","0">>, <<" ">>,
      w_day, <<"W","e","e","k">>, w_month,
      <<"S","h","i","p">>,
      w_product, <<"M","a","r","k","e","t","i","n","g">>,
      w_product \o <<" ","M","a","r","k","e","t","i","n","g">> }

\* the texts made of at most k fragments
RECURSIVE GoalsOf(_)
GoalsOf(k) ==
    IF k = 0 THEN {<<>>}
    ELSE LET shorter == GoalsOf(k - 1)
         IN  shorter \cup {g \o f : g \in shorter, f \in Fragments}

\* the goals mock_llm_reasoning is called with
MockGoals == GoalsOf(MaxFrags)

\* the goals generate_plan is called with
PlanGoals == GoalsOf(MaxPlanFrags)

k_title       == <<"t","i","t","l","e">>
k_description == <<"d","e","s","c","r","i","p","t","i","o","n">>
k_start_date  == <<"s","t","a","r","t","_","d","a","t","e">>
k_end_date    == <<"e","n","d","_","d","a","t","e">>
k_depends_on  == <<"d","e","p","e","n","d","s","_","o","n">>

\* the five keys of a task
TaskKeys == {k_title, k_description, k_start_date, k_end_date, k_depends_on}

Quoted(chars) == <<Quote>> \o chars \o <<Quote>>

Member(key, chars) == Quoted(key) \o <<":">> \o Quoted(chars)

\* length of the reply that is longer than the note kept of it
LongReplyLen == 401

\* contents the external service may answer with
r_prose    == <<"S","u","r","e","!">>
r_long     == [i \in 1..LongReplyLen |-> "x"]
r_empty    == <<>>
r_object   == <<"{">> \o Member(k_title, <<"a">>) \o <<"}">>
r_number   == <<"4","2">>
r_string   == Quoted(<<"o","k">>)
r_null     == <<"n","u","l","l">>
r_noitems  == <<"[","]">>
r_numbers  == <<"[","1",","," ","2","]">>
r_partial  == <<"[","{">> \o Member(k_title, <<"a">>) \o <<"}","]">>
r_tasks    ==
    <<"[","{">> \o Member(k_title, <<"a">>) \o <<",">>
        \o Member(k_description, <<"b">>) \o <<","," ">>
        \o Member(k_start_date, <<"c">>) \o <<",">>
        \o Member(k_end_date, <<"d">>) \o <<",">>
        \o Member(k_depends_on, <<>>) \o <<"}","]">>

Replies ==
    {r_prose, r_long, r_empty, r_object, r_number, r_string, r_null,
     r_noitems, r_numbers, r_partial, r_tasks}

\* the ways the external call fails: httpx timeout, connection error,
\* raise_for_status on a non-2xx answer, and an envelope that is not JSON or
\* lacks choices[0].message.content
Failures == {"timeout", "connect", "status", "envelope"}

NoOutcome == [kind |-> "none"]

NoResult == [kind |-> "none"]

-----------------------------------------------------------------------------
(* generate_plan *)

\* build_prompt(goal): the fixed instruction around the goal
build_prompt(goal) ==
    <<"Break down this user goal into an actionable task list. ...Goal: ",
      goal,
      "Return as JSON array of objects with keys: title, description, start_date, end_date, depends_on.">>

\* characters of the raw reply kept in llm_note
NoteLimit == 400

\* reply[:400]
Note(reply) == SubSeq(reply, 1, Min(NoteLimit, Len(reply)))

\* t.setdefault("llm_note", note)
SetNote(t, note) ==
    IF "llm_note" \in DOMAIN t THEN t ELSE t @@ ("llm_note" :> note)

\* ShouldCallExternal testing the credential alone
ShouldCallExternal_KeyOnly(use, key) == key

\* the condition of the external branch
ShouldCallExternal(use, key) == use /\ key

\* return parsed: the reply's value, whatever it is
ReturnParsed(v) == [kind |-> "return_parsed", value |-> v]

\* a run of mock_llm_reasoning whose parse_goal_duration gave d: its local
\* duration and what it gives back
MockRunOf(goal, n, shown, d) ==
    [printed |-> shown, duration |-> d, result |-> PlanOf(goal, d, n)]

MockRun(goal, n, shown) == MockRunOf(goal, n, shown, parse_goal_duration(goal, n))

\* the outer handler: print, then the mock
OnFailure(goal, n) == MockRun(goal, n, TRUE)

\* for t in plan: t.setdefault("llm_note", reply[:400])
WithNotes(tasks, reply) == [i \in 1..Len(tasks) |-> SetNote(tasks[i], Note(reply))]

\* the inner handler: the mock, every task given the note.  When the mock
\* raises there, the outer handler catches it and calls the mock again.
Annotate(goal, n, reply, run) ==
    IF run.result.kind = "raise" THEN OnFailure(goal, n)
    ELSE [run EXCEPT !.result = Return(WithNotes(run.result.value, reply))]

\* return parsed when json.loads succeeds, else the inner handler
AfterLoads(goal, n, reply, parsed) ==
    IF parsed.ok
    THEN [printed |-> FALSE, duration |-> NoResult, result |-> ReturnParsed(parsed.v)]
    ELSE Annotate(goal, n, reply, MockRun(goal, n, FALSE))

\* what generate_plan does with the reply of a successful call
OnReply(goal, n, reply) == AfterLoads(goal, n, reply, json_loads(reply))

\* the call ends as the run h says
Conclude(h, at) ==
    /\ printed' = h.printed
    /\ duration' = h.duration
    /\ result' = h.result
    /\ pc' = at

\* generate_plan(g, u) at instant n, up to its only await, or to its end on
\* the direct path
GeneratePlanCall(g, u, n) ==
    /\ goal_text' = Strip(g)
    /\ use_openai' = u
    /\ now' = n
    /\ IF ShouldCallExternal(u, OPENAI_KEY)
       THEN IF OPENAI_KEY
            THEN /\ request' = build_prompt(Strip(g))
                 /\ posts' = posts + 1
                 /\ pc' = "awaiting"
                 /\ UNCHANGED <<outcome, printed, duration, result>>
            ELSE \* call_openai raises RuntimeError before any request
                 /\ outcome' = [kind |-> "failed", error |-> "not configured"]
                 /\ Conclude(OnFailure(Strip(g), n), "done")
                 /\ UNCHANGED <<request, posts>>
       ELSE /\ Conclude(MockRun(Strip(g), n, FALSE), "done")
            /\ UNCHANGED <<request, posts, outcome>>
    /\ UNCHANGED OPENAI_KEY

GeneratePlan ==
    /\ pc = "idle"
    /\ \E g \in PlanGoals, u \in BOOLEAN, n \in NowSet : GeneratePlanCall(g, u, n)

\* the post, raise_for_status, r.json() or the envelope lookup raises
CallFails ==
    /\ pc = "awaiting"
    /\ \E f \in Failures : outcome' = [kind |-> "failed", error |-> f]
    /\ Conclude(OnFailure(goal_text, now), "done")
    /\ UNCHANGED <<OPENAI_KEY, goal_text, use_openai, now, request, posts>>

\* call_openai returns the text content of the answer
CallReturns ==
    /\ pc = "awaiting"
    /\ \E reply \in Replies :
          /\ outcome' = [kind |-> "reply", reply |-> reply]
          /\ Conclude(OnReply(goal_text, now, reply), "done")
    /\ UNCHANGED <<OPENAI_KEY, goal_text, use_openai, now, request, posts>>

\* call_openai returns None (an answer whose content is null): json.loads
\* raises TypeError, and so does reply[:400] in the inner handler, which the
\* outer handler catches
CallReturnsNone ==
    /\ pc = "awaiting"
    /\ outcome' = [kind |-> "reply_none"]
    /\ Conclude(OnFailure(goal_text, now), "done")
    /\ UNCHANGED <<OPENAI_KEY, goal_text, use_openai, now, request, posts>>

\* a direct call of mock_llm_reasoning
CallMockLlmReasoning ==
    /\ pc = "idle"
    /\ \E g \in MockGoals, n \in NowSet :
          /\ goal_text' = g
          /\ now' = n
          /\ Conclude(MockRun(g, n, FALSE), "mocked")
    /\ UNCHANGED <<OPENAI_KEY, use_openai, request, posts, outcome>>

\* the call is over; nothing of it is kept
Finish ==
    /\ pc \in {"done", "mocked"}
    /\ pc' = "idle"
    /\ goal_text' = <<>>
    /\ use_openai' = FALSE
    /\ now' = 0
    /\ request' = <<>>
    /\ posts' = 0
    /\ outcome' = NoOutcome
    /\ printed' = FALSE
    /\ duration' = NoResult
    /\ result' = NoResult
    /\ UNCHANGED OPENAI_KEY

Init ==
    /\ OPENAI_KEY \in BOOLEAN
    /\ pc = "idle"
    /\ goal_text = <<>>
    /\ use_openai = FALSE
    /\ now = 0
    /\ request = <<>>
    /\ posts = 0
    /\ outcome = NoOutcome
    /\ printed = FALSE
    /\ duration = NoResult
    /\ result = NoResult

Next ==
    \/ GeneratePlan
    \/ CallFails
    \/ CallReturns
    \/ CallReturnsNone
    \/ CallMockLlmReasoning
    \/ Finish

Spec == Init /\ [][Next]_vars

-----------------------------------------------------------------------------
(* Properties *)

\* mock_llm_reasoning ran in the current call, directly or inside
\* generate_plan, on goal_text at instant now
MockRan == pc \in {"mocked", "done"} /\ duration.kind # "none"

\* it ran and returned its tasks (in generate_plan's inner handler they
\* have been given their llm_note since)
MockReturned == MockRan /\ duration.kind = "return" /\ result.kind = "return"

\* the duration the run inferred
Days == duration.value.days

\* number of phases the claims state for a duration
CountFor(days) == IF days >= 10 THEN 6 ELSE 4

Count == CountFor(Days)

\* allocation per phase the claims state
PFor(days, count) == IF days \div count >= 1 THEN days \div count ELSE 1

P == PFor(Days, Count)

\* the lower-cased goal g has both keywords of the augmentation
HasBoth(g) == Contains(w_product, g) /\ Contains(w_marketing, g)

Trigger == HasBoth(Lower(goal_text))

\* where the i-th of count phase tasks sits in the returned list
PhasePos(i, count, extra) == IF extra /\ i = count THEN count + 1 ELSE i

\* the returned task is the one titled "Marketing prep"
IsMarketing(t) == t.title = "Marketing prep"

\* C1: the deterministic pipeline is total: for every goal it returns a
\* non-empty task sequence and never raises.
C1_PipelineTotal ==
    pc = "mocked" => result.kind = "return" /\ Len(result.value) >= 1

\* C2: when the external call fails, generate_plan raises nothing and
\* returns exactly the task sequence of the deterministic pipeline for the
\* same goal and instant, no task carrying an llm_note.
C2_FailureFallsBack ==
    (pc = "done" /\ outcome.kind = "failed" /\ posts = 1) =>
        /\ result.kind = "return"
        /\ result = mock_llm_reasoning(goal_text, now)
        /\ \A i \in 1..Len(result.value) : "llm_note" \notin DOMAIN result.value[i]

\* the parsed reply is a non-empty array of objects that have the five keys
IsTaskArray(v) ==
    /\ v.t = "list"
    /\ Len(v.items) >= 1
    /\ \A i \in 1..Len(v.items) :
          /\ v.items[i].t = "dict"
          /\ TaskKeys \subseteq DOMAIN v.items[i].items

\* C3: a reply is returned as the plan only if it is a JSON array of objects
\* with the five keys; a reply of any other shape gives the deterministic
\* output, every task carrying llm_note = the first min(400, length)
\* characters of the reply.  (Stated for the goals the pipeline returns on.)
C3_OnlyTaskArraysReplace ==
    (/\ pc = "done"
     /\ outcome.kind = "reply"
     /\ mock_llm_reasoning(goal_text, now).kind = "return") =>
        IF json_loads(outcome.reply).ok /\ IsTaskArray(json_loads(outcome.reply).v)
        THEN result = ReturnParsed(json_loads(outcome.reply).v)
        ELSE /\ result.kind = "return"
             /\ Len(result.value) = Len(mock_llm_reasoning(goal_text, now).value)
             /\ \A i \in 1..Len(result.value) :
                   /\ "llm_note" \in DOMAIN result.value[i]
                   /\ result.value[i].llm_note =
                         SubSeq(outcome.reply, 1, Min(400, Len(outcome.reply)))

\* g[a..b] is a run of digits
AllDigits(g, a, b) == \A j \in a..b : g[j] \in {Digits[d] : d \in 1..10}

\* g[a..b] is a run of whitespace
AllSpaces(g, a, b) == \A j \in a..b : IsSpace(g[j])

\* one of the three unit words stands at u
UnitAt(g, u) == OccursAt(w_day, g, u) \/ OccursAt(w_week, g, u) \/ OccursAt(w_month, g, u)

\* <integer><optional whitespace><unit> matches g from position i
PatternAt(g, i) ==
    \E e \in i..Len(g) : \E w \in e..Len(g) :
        AllDigits(g, i, e) /\ AllSpaces(g, e + 1, w) /\ UnitAt(g, w + 1)

\* the days the pattern matched at i stands for: its integer N, read up to
\* the last digit of the run, times 1, 7 or 30 by the unit after the
\* whitespace
PatternDays(g, i) ==
    LET e == MaxOf({x \in i..Len(g) : AllDigits(g, i, x)})
        w == MaxOf({x \in e..Len(g) : AllSpaces(g, e + 1, x)})
    IN  IntOf(SubSeq(g, i, e)) *
            (IF OccursAt(w_day, g, w + 1) THEN 1
             ELSE IF OccursAt(w_week, g, w + 1) THEN 7 ELSE 30)

\* the days C4 states for the lower-cased goal g
StatedDays(g) ==
    IF \E i \in 1..Len(g) : PatternAt(g, i)
    THEN PatternDays(g, MinOf({i \in 1..Len(g) : PatternAt(g, i)}))
    ELSE IF Contains(w_launch, g) \/ Contains(w_ship, g) \/ Contains(w_release, g)
         THEN 14 ELSE 30

\* C4: for every goal, parse_goal_duration returns the days of the leftmost
\* match of <integer N><optional whitespace><unit> in the lower-cased goal
\* (N, N*7, N*30), and 14 or 30 by the keywords when there is no match.
C4_ReturnsStatedDays ==
    MockRan => duration.kind = "return" /\ Days = StatedDays(Lower(goal_text))

\* C5: the days parse_goal_duration returns are always at least 1.
C5_DaysAtLeastOne ==
    (MockRan /\ duration.kind = "return") => Days >= 1

\* tasks are count template phases in order, with the extra task before
\* the last of them exactly when extra
PhasesAndAugmentation(tasks, count, extra) ==
    /\ Len(tasks) = count + (IF extra THEN 1 ELSE 0)
    /\ Len(tasks) \in {4, 5, 6, 7}
    /\ \A i \in 1..count :
          /\ tasks[PhasePos(i, count, extra)].title = phases[i][1]
          /\ tasks[PhasePos(i, count, extra)].description = phases[i][2]
    /\ extra => IsMarketing(tasks[count])
    /\ \A i \in 1..Len(tasks) :
          IsMarketing(tasks[i]) => extra /\ i = Len(tasks) - 1

\* C6: the returned tasks are the template phases in template order, all 6
\* when days >= 10 and the first 4 when days < 10, plus one task titled
\* "Marketing prep" exactly when the lower-cased goal has both "product" and
\* "marketing", placed immediately before the last phase task; so there are
\* 4, 5, 6 or 7 tasks and no others.
C6_PhasesAndAugmentation ==
    MockReturned => PhasesAndAugmentation(result.value, Count, Trigger)

\* the case C6 is about at its rarest: a short plan with the extra task
C6_Witness ==
    /\ pc = "mocked"
    /\ MockReturned
    /\ Days < 10
    /\ Len(result.value) = 5
    /\ IsMarketing(result.value[4])

\* the depends_on of tasks follow the chain of the count chosen phases
DependsOnChain(tasks, count, extra) ==
    /\ Len(tasks) >= count
    /\ tasks[1].depends_on = ""
    /\ \A i \in 2..count :
          tasks[PhasePos(i, count, extra)].depends_on = phases[i - 1][1]
    /\ \A i \in 1..Len(tasks) :
          /\ IsMarketing(tasks[i]) => tasks[i].depends_on = phases[1][1]
          /\ tasks[i].depends_on # "" =>
                \E j \in 1..(i - 1) : tasks[j].title = tasks[i].depends_on

\* C7: the first task depends on nothing, every other phase task on the
\* title of the phase before it in the chosen template, "Marketing prep" on
\* the title of the first chosen phase; so every non-empty depends_on names
\* a task earlier in the returned list.
C7_DependsOnChain ==
    MockReturned => DependsOnChain(result.value, Count, Trigger)

\* a full plan with the extra task, whose last phase task comes after it
C7_Witness ==
    /\ MockReturned
    /\ Len(result.value) = 7
    /\ IsMarketing(result.value[6])
    /\ result.value[7].depends_on = result.value[5].title

\* the dates of tasks are those of count phases of p days from day n on
DatesAllocated(tasks, count, extra, p, n) ==
    /\ Len(tasks) >= count
    /\ \A i \in 1..count :
          /\ tasks[PhasePos(i, count, extra)].start_date = IsoDate(n + (i - 1) * p)
          /\ tasks[PhasePos(i, count, extra)].end_date = IsoDate(n + i * p - 1)
    /\ \A i \in 1..Len(tasks) :
          /\ IsMarketing(tasks[i]) =>
                /\ tasks[i].start_date = IsoDate(n + p)
                /\ tasks[i].end_date = IsoDate(n + 2 * p)
          /\ IsoLeq(tasks[i].start_date, tasks[i].end_date)

\* C8: with p = max(1, days // count), the i-th phase task starts on the
\* date of now + (i-1)*p days and ends on the date of now + i*p - 1 days,
\* "Marketing prep" runs from now + p to now + 2*p, and every task ends on
\* or after the day it starts.
C8_Dates ==
    MockReturned => DatesAllocated(result.value, Count, Trigger, P, now)

\* a plan with the extra task and phases of several days that runs over a
\* year end: a phase starts in one year and ends in the next
C8_Witness ==
    /\ MockReturned
    /\ P >= 2
    /\ Len(result.value) = 7
    /\ \E i \in 1..7 :
          result.value[i].start_date[1] < result.value[i].end_date[1]

\* the last of the count phase tasks
LastPhase(tasks, count) == tasks[IF Len(tasks) > count THEN count + 1 ELSE count]

\* the allocations of count phases sum to at most days, fall short of it by
\* at most count - 1, and the last phase task ends no later than n + days
SumWithinDays(tasks, days, count, per, n) ==
    /\ 0 <= days - count * per
    /\ days - count * per <= count - 1
    /\ IsoLeq(LastPhase(tasks, count).end_date, IsoDate(n + days))

\* C9 as stated: for every inferred duration the allocations sum to at
\* most days and fall short of it by at most count - 1, so the last phase
\* task ends no later than now + days.  (Stated for days >= 1.)
C9_SumWithinDays ==
    (MockReturned /\ Days >= 1) =>
        SumWithinDays(result.value, Days, Len(Chosen(Days)),
                      PerTaskDays(Days, Len(Chosen(Days))), now)

\* what holds of the allocations instead, by the two cases
SumByCase(tasks, days, count, per, n) ==
    /\ count = CountFor(days)
    /\ Len(tasks) >= count
    /\ LastPhase(tasks, count).end_date = IsoDate(n + count * per - 1)
    /\ days >= count =>
          /\ SumWithinDays(tasks, days, count, per, n)
          /\ count * per - 1 < days
    /\ days < count =>
          /\ count = 4
          /\ per = 1
          /\ count * per > days
          /\ LastPhase(tasks, count).end_date = IsoDate(n + 3)

\* C9 as amended: when days is at least the phase count the allocations sum
\* to at most days, fall short of it by at most count - 1 and the last
\* phase task ends before now + days; when days is below the phase count
\* (then 4) every phase gets 1 day, the allocations sum to 4, more than
\* days, and the last phase task ends on now + 3.
C9_SumWithinDaysFromCount ==
    MockReturned =>
        SumByCase(result.value, Days, Len(Chosen(Days)),
                  PerTaskDays(Days, Len(Chosen(Days))), now)

\* a duration of at least the phase count that is no multiple of it: the
\* allocations fall short by the most they can
C9_Witness ==
    /\ MockReturned
    /\ Days >= Count
    /\ Days - Count * PerTaskDays(Days, Count) = Count - 1

\* C10: the external call is attempted at most once per invocation and only
\* when use_openai is true and the credential is configured; otherwise no
\* call is made and the result is the deterministic output for the goal.
C10_ExternalCallOnceAndGated ==
    /\ posts <= 1
    /\ posts = 1 => use_openai /\ OPENAI_KEY
    /\ pc = "awaiting" => posts = 1
    /\ (pc = "done" /\ ~(use_openai /\ OPENAI_KEY)) =>
          /\ posts = 0
          /\ request = <<>>
          /\ outcome = NoOutcome
          /\ result = mock_llm_reasoning(goal_text, now)

\* the flag is set but no credential is configured: no call, the
\* deterministic plan
C10_Witness ==
    /\ pc = "done"
    /\ use_openai
    /\ ~OPENAI_KEY
    /\ posts = 0
    /\ result.kind = "return"
    /\ Len(result.value) = 6

=============================================================================
